---- MODULE Spec2Model ----
\* Stable-fluids solver of src/fluid_sim.py (class Fluid and its driver loop).
\*
\* Numbers: the fields are dtype=float arrays.  They are modelled in fixed
\* point: the integer v stands for the real v / Scale.  Products of two
\* fixed-point numbers are rescaled by Mul and truncated toward zero; sums,
\* differences and negation are exact.  Scale is divisible by 2, 5 and 6, so
\* the literals of the program (0.5, dt = 0.2, 1/6) are exact.
\*
\* Memory: the six N x N arrays of a Fluid (s, density and the two components
\* of velo and of velo0) are the fields of a heap record; the routines take
\* the NAMES of the arrays they work on, as the Python code takes references
\* (self.velo[:, :, 0] is a view, not a copy), read the live heap and write it
\* cell by cell in the order of the source's loops.
EXTENDS Integers, Sequences, FiniteSets, TLC

VARIABLES s, density, velo, velo0, iter, pc, frame, pre, start, todo, interiorOnly

vars == <<s, density, velo, velo0, iter, pc, frame, pre, start, todo, interiorOnly>>

-----------------------------------------------------------------------------
\* Sizes and numbers

\* self.size: side of the grid (the program uses 40)
size == 4

\* frames: iterations of the driver loop (the program uses 30)
frames == 2

\* iterations of the driver loop in SpecSweep
SweepFrames == 1

\* largest self.iter the configuration is drawn from in SpecIter
MaxIter == 2

\* fixed-point resolution of a float
Scale == 3000

\* self.iter as set by the constructor
IterDefault == 2

\* self.diff and self.visc
diff == 0

visc == 0

\* self.dt = 0.2
dt == Scale \div 5

\* the literal 0.5
Half == Scale \div 2

\* integer quotient truncated toward zero
Trunc(p, q) == IF p >= 0 THEN p \div q ELSE -((-p) \div q)

\* product of two fixed-point numbers
Mul(a, b) == Trunc(a * b, Scale)

\* 1 / c
Recip(c) == Trunc(Scale * Scale, c)

-----------------------------------------------------------------------------
\* Grid and heap

Idx == 0 .. size - 1

Cell == Idx \X Idx

InteriorIdx == 1 .. size - 2

InteriorCells == InteriorIdx \X InteriorIdx

BorderCells == Cell \ InteriorCells

NInterior == (size - 2) * (size - 2)

\* k-th interior cell of "for j in range(1, size-1): for i in range(1, size-1)"
InteriorAt(k) == <<1 + (k % (size - 2)), 1 + (k \div (size - 2))>>

\* np.full((size, size), 0, dtype=float)
Zero == [c \in Cell |-> 0]

\* the arrays of a Fluid, by name; err: an IndexError has been raised
Heap ==
  [s |-> s, density |-> density,
   velo_x |-> velo[1], velo_y |-> velo[2],
   velo0_x |-> velo0[1], velo0_y |-> velo0[2],
   err |-> FALSE]

\* the 3d arrays self.velo and self.velo0, and 2d arrays, as tables of names
T_velo == <<"velo_x", "velo_y">>

T_velo0 == <<"velo0_x", "velo0_y">>

-----------------------------------------------------------------------------
\* set_boundaries

\* the wall takes the negated value of its interior neighbour
NegateCol_mirror(f, col) ==
  [c \in Cell |->
     IF c[2] = col THEN -f[<<c[1], IF col = 0 THEN 1 ELSE col - 1>>] ELSE f[c]]

\* table[:, col, 1] = - table[:, col, 1]
NegateCol(f, col) == [c \in Cell |-> IF c[2] = col THEN -f[c] ELSE f[c]]

\* table[row, :, 0] = - table[row, :, 0]
NegateRow(f, row) == [c \in Cell |-> IF c[1] = row THEN -f[c] ELSE f[c]]

\* the four corner assignments, in order
Corners(f) ==
  LET f1 == [f EXCEPT ![<<0, 0>>] = Mul(Half, f[<<1, 0>>] + f[<<0, 1>>])]
      f2 == [f1 EXCEPT ![<<0, size - 1>>] =
                Mul(Half, f1[<<1, size - 1>>] + f1[<<0, size - 2>>])]
      f3 == [f2 EXCEPT ![<<size - 1, 0>>] =
                Mul(Half, f2[<<size - 2, 0>>] + f2[<<size - 1, 1>>])]
  IN  [f3 EXCEPT ![<<size - 1, size - 1>>] =
          Mul(Half, f3[<<size - 2, size - 1>>]) + f3[<<size - 1, size - 2>>]]

\* the far walls are left as they are
set_boundaries_near_walls(h, table) ==
  IF Len(table) > 1
  THEN LET h1 == [h EXCEPT
                    ![table[2]] = NegateCol(@, 0),
                    ![table[1]] = NegateRow(@, 0)]
       IN  [h1 EXCEPT ![table[1]] = Corners(@), ![table[2]] = Corners(@)]
  ELSE [h EXCEPT ![table[1]] = Corners(@)]

set_boundaries(h, table) ==
  IF Len(table) > 1
  THEN LET h1 == [h EXCEPT
                    ![table[2]] = NegateCol(NegateCol(@, 0), size - 1),
                    ![table[1]] = NegateRow(NegateRow(@, 0), size - 1)]
       IN  [h1 EXCEPT ![table[1]] = Corners(@), ![table[2]] = Corners(@)]
  ELSE [h EXCEPT ![table[1]] = Corners(@)]

-----------------------------------------------------------------------------
\* lin_solve and diffuse

\* x[i, j] = (x0[i, j] + a * (x[i+1, j] + x[i-1, j] + x[i, j+1] + x[i, j-1])) * c_recip
\* for one component of the table
lin_cell(h, xn, x0n, a, c_recip, c) ==
  LET i == c[1]
      j == c[2]
      f == h[xn]
  IN  Mul(h[x0n][c]
          + Mul(a, f[<<i + 1, j>>] + f[<<i - 1, j>>] + f[<<i, j + 1>>] + f[<<i, j - 1>>]),
          c_recip)

RECURSIVE lin_sweep(_, _, _, _, _, _)
lin_sweep(h, x, x0, a, c_recip, k) ==
  IF k = NInterior THEN h
  ELSE LET c == InteriorAt(k)
           h1 == IF Len(x) > 1
                 THEN [h EXCEPT
                         ![x[1]][c] = lin_cell(h, x[1], x0[1], a, c_recip, c),
                         ![x[2]][c] = lin_cell(h, x[2], x0[2], a, c_recip, c)]
                 ELSE [h EXCEPT ![x[1]][c] = lin_cell(h, x[1], x0[1], a, c_recip, c)]
       IN  lin_sweep(h1, x, x0, a, c_recip, k + 1)

RECURSIVE lin_iterate(_, _, _, _, _, _)
lin_iterate(h, x, x0, a, c_recip, n) ==
  IF n = 0 THEN h
  ELSE lin_iterate(set_boundaries(lin_sweep(h, x, x0, a, c_recip, 0), x),
                   x, x0, a, c_recip, n - 1)

lin_solve(h, x, x0, a, c) == lin_iterate(h, x, x0, a, Recip(c), iter)

diffuse_wrong_rate(h, x, x0, rate) ==
  LET a == Mul(dt, Scale \div 10) * (size - 2) * (size - 2)
  IN  lin_solve(h, x, x0, a, Scale + 6 * a)

diffuse(h, x, x0, rate) ==
  LET a == Mul(dt, rate) * (size - 2) * (size - 2)
  IN  lin_solve(h, x, x0, a, Scale + 6 * a)

-----------------------------------------------------------------------------
\* project

RECURSIVE project_div(_, _, _, _, _, _)
project_div(h, velo_x, velo_y, p, div, k) ==
  IF k = NInterior THEN h
  ELSE LET c == InteriorAt(k)
           i == c[1]
           j == c[2]
           e == h[velo_x][<<i + 1, j>>] - h[velo_x][<<i - 1, j>>]
                + h[velo_y][<<i, j + 1>>] - h[velo_y][<<i, j - 1>>]
           h1 == [h EXCEPT ![div][c] = Trunc(Mul(-Half, e), size)]
           h2 == [h1 EXCEPT ![p][c] = 0]
       IN  project_div(h2, velo_x, velo_y, p, div, k + 1)

RECURSIVE project_grad(_, _, _, _, _)
project_grad(h, velo_x, velo_y, p, k) ==
  IF k = NInterior THEN h
  ELSE LET c == InteriorAt(k)
           i == c[1]
           j == c[2]
           h1 == [h EXCEPT ![velo_x][c] =
                    @ - Mul(Half, h[p][<<i + 1, j>>] - h[p][<<i - 1, j>>]) * size]
           h2 == [h1 EXCEPT ![velo_y][c] =
                    @ - Mul(Half, h1[p][<<i, j + 1>>] - h1[p][<<i, j - 1>>]) * size]
       IN  project_grad(h2, velo_x, velo_y, p, k + 1)

\* project up to, not including, its last statement
project_body(h, velo_x, velo_y, p, div) ==
  LET h1 == project_div(h, velo_x, velo_y, p, div, 0)
      h2 == set_boundaries(h1, <<div>>)
      h3 == set_boundaries(h2, <<p>>)
      h4 == lin_solve(h3, <<p>>, <<div>>, Scale, 6 * Scale)
  IN  project_grad(h4, velo_x, velo_y, p, 0)

\* the last statement is set_boundaries(self.velo), whatever was projected
project(h, velo_x, velo_y, p, div) ==
  set_boundaries(project_body(h, velo_x, velo_y, p, div), T_velo)

-----------------------------------------------------------------------------
\* advect

Clamp(x) ==
  LET x1 == IF x < Half THEN Half ELSE x
  IN  IF x1 > size * Scale + Half THEN size * Scale + Half ELSE x1

\* the clamped back-traced coordinates of cell c and the indices read there
advect_trace(h, velo_x, velo_y, c) ==
  LET dtx == dt * (size - 2)
      dty == dt * (size - 2)
      x == Clamp(c[1] * Scale - Mul(dtx, h[velo_x][c]))
      y == Clamp(c[2] * Scale - Mul(dty, h[velo_y][c]))
      i0 == x \div Scale
      j0 == y \div Scale
  IN  [x |-> x, y |-> y, i0 |-> i0, i1 |-> i0 + 1, j0 |-> j0, j1 |-> j0 + 1]

\* numpy raises IndexError on an index outside 0 .. size-1 (none is negative)
InBuffer(t) == {t.i0, t.i1, t.j0, t.j1} \subseteq Idx

\* the weights s0 and s1 taken for each other
advect_cell_swapped(h, d, d0, velo_x, velo_y, c) ==
  LET t == advect_trace(h, velo_x, velo_y, c)
      s0 == t.x - t.i0 * Scale
      s1 == Scale - s0
      t1 == t.y - t.j0 * Scale
      t0 == Scale - t1
      f == h[d0]
  IN  IF ~InBuffer(t) THEN [h EXCEPT !.err = TRUE]
      ELSE [h EXCEPT ![d][c] =
              Mul(s0, Mul(t0, f[<<t.i0, t.j0>>]) + Mul(t1, f[<<t.i0, t.j1>>]))
              + Mul(s1, Mul(t0, f[<<t.i1, t.j0>>]) + Mul(t1, f[<<t.i1, t.j1>>]))]

\* the body of the double loop for one cell
advect_cell(h, d, d0, velo_x, velo_y, c) ==
  LET t == advect_trace(h, velo_x, velo_y, c)
      s1 == t.x - t.i0 * Scale
      s0 == Scale - s1
      t1 == t.y - t.j0 * Scale
      t0 == Scale - t1
      f == h[d0]
  IN  IF ~InBuffer(t) THEN [h EXCEPT !.err = TRUE]
      ELSE [h EXCEPT ![d][c] =
              Mul(s0, Mul(t0, f[<<t.i0, t.j0>>]) + Mul(t1, f[<<t.i0, t.j1>>]))
              + Mul(s1, Mul(t0, f[<<t.i1, t.j0>>]) + Mul(t1, f[<<t.i1, t.j1>>]))]

RECURSIVE advect_sweep(_, _, _, _, _, _)
advect_sweep(h, d, d0, velo_x, velo_y, k) ==
  IF h.err \/ k = NInterior THEN h
  ELSE advect_sweep(advect_cell(h, d, d0, velo_x, velo_y, InteriorAt(k)),
                    d, d0, velo_x, velo_y, k + 1)

advect(h, d, d0, velo_x, velo_y) ==
  LET h1 == advect_sweep(h, d, d0, velo_x, velo_y, 0)
  IN  IF h1.err THEN h1 ELSE set_boundaries(h1, <<d>>)

-----------------------------------------------------------------------------
\* step

\* the velocity advected in place: d is d0
AdvectArgs_in_place(at) ==
  CASE at = "advect_x" ->
         [d |-> "velo0_x", d0 |-> "velo0_x", velo_x |-> "velo0_x", velo_y |-> "velo0_y"]
    [] at = "advect_y" ->
         [d |-> "velo0_y", d0 |-> "velo0_y", velo_x |-> "velo0_x", velo_y |-> "velo0_y"]
    [] at = "advect_density" ->
         [d |-> "density", d0 |-> "s", velo_x |-> "velo_x", velo_y |-> "velo_y"]

\* the (d, d0, velo_x, velo_y) of the three advect calls of step
AdvectArgs(at) ==
  CASE at = "advect_x" ->
         [d |-> "velo_x", d0 |-> "velo0_x", velo_x |-> "velo0_x", velo_y |-> "velo0_y"]
    [] at = "advect_y" ->
         [d |-> "velo_y", d0 |-> "velo0_y", velo_x |-> "velo0_x", velo_y |-> "velo0_y"]
    [] at = "advect_density" ->
         [d |-> "density", d0 |-> "s", velo_x |-> "velo_x", velo_y |-> "velo_y"]

AdvectPcs == {"advect_x", "advect_y", "advect_density"}

\* the statements of step, in order, named by what they do
StepOrder ==
  <<"diffuse_velo", "project_velo0", "advect_x", "advect_y",
    "project_velo", "diffuse_density", "advect_density">>

\* where control is after the last statement of step
AfterStep == "record"

NextPc(at) ==
  LET n == CHOOSE n \in 1 .. Len(StepOrder) : StepOrder[n] = at
  IN  IF n = Len(StepOrder) THEN AfterStep ELSE StepOrder[n + 1]

\* the (x, x0, diff) of the two diffuse calls of step
DiffuseArgs(at) ==
  CASE at = "diffuse_velo" -> [x |-> T_velo0, x0 |-> T_velo, rate |-> visc]
    [] at = "diffuse_density" -> [x |-> <<"s">>, x0 |-> <<"density">>, rate |-> diff]

DiffusePcs == {"diffuse_velo", "diffuse_density"}

\* the (velo_x, velo_y, p, div) of the two project calls of step
ProjectArgs(at) ==
  CASE at = "project_velo0" ->
         [velo_x |-> "velo0_x", velo_y |-> "velo0_y", p |-> "velo_x", div |-> "velo_y"]
    [] at = "project_velo" ->
         [velo_x |-> "velo_x", velo_y |-> "velo_y", p |-> "velo0_x", div |-> "velo0_y"]

ProjectPcs == {"project_velo0", "project_velo"}

\* step with the density diffusion left out
StepCall_skip_diffuse(at, h) ==
  IF at \in DiffusePcs
  THEN IF at = "diffuse_density" THEN h
       ELSE LET a == DiffuseArgs(at) IN diffuse(h, a.x, a.x0, a.rate)
  ELSE IF at \in ProjectPcs
  THEN LET a == ProjectArgs(at) IN project(h, a.velo_x, a.velo_y, a.p, a.div)
  ELSE LET a == AdvectArgs(at) IN advect(h, a.d, a.d0, a.velo_x, a.velo_y)

\* one statement of step applied to heap h
StepCall(at, h) ==
  IF at \in DiffusePcs
  THEN LET a == DiffuseArgs(at) IN diffuse(h, a.x, a.x0, a.rate)
  ELSE IF at \in ProjectPcs
  THEN LET a == ProjectArgs(at) IN project(h, a.velo_x, a.velo_y, a.p, a.div)
  ELSE LET a == AdvectArgs(at) IN advect(h, a.d, a.d0, a.velo_x, a.velo_y)

\* step from its n-th statement on; an IndexError leaves the rest undone
RECURSIVE step_from(_, _)
step_from(h, n) ==
  IF h.err \/ n > Len(StepOrder) THEN h
  ELSE step_from(StepCall(StepOrder[n], h), n + 1)

step(h) == step_from(h, 1)

-----------------------------------------------------------------------------
\* The driver loop and the actions

\* cells the driver may write (density and velo are public arrays; the loop of
\* __main__ writes interior cells): three interior cells and two wall cells
InjectCells ==
  {<<1, 1>>, <<size - 2, size - 2>>, <<1, size - 2>>, <<1, 0>>, <<size - 1, size - 2>>}

\* what the driver adds to a cell of density
DensityAmounts == {Scale}

\* what the driver adds to a cell of velo: nothing, [1, 2], [-4, 0]
VeloImpulses == {<<0, 0>>, <<Scale, 2 * Scale>>, <<-4 * Scale, 0>>}

Init ==
  /\ s = Zero
  /\ density = Zero
  /\ velo = <<Zero, Zero>>
  /\ velo0 = <<Zero, Zero>>
  /\ iter = IterDefault
  /\ pc = "inject"
  /\ frame = 0
  /\ pre = [s |-> Zero, density |-> Zero, velo_x |-> Zero, velo_y |-> Zero,
            velo0_x |-> Zero, velo0_y |-> Zero, err |-> FALSE]
  /\ start = pre
  /\ todo = InteriorCells
  /\ interiorOnly = TRUE

\* the heap becomes h; an IndexError ends the program
Commit(h, to) ==
  /\ s' = h.s
  /\ density' = h.density
  /\ velo' = <<h.velo_x, h.velo_y>>
  /\ velo0' = <<h.velo0_x, h.velo0_y>>
  /\ pc' = IF h.err THEN "crashed" ELSE to

\* the driver adds to one cell of density and of velo, then calls step
InjectAt(cells) ==
  /\ pc = "inject"
  /\ \E c \in cells, amt \in DensityAmounts, vec \in VeloImpulses :
       LET h == [Heap EXCEPT !.density[c] = @ + amt,
                             !.velo_x[c] = @ + vec[1],
                             !.velo_y[c] = @ + vec[2]]
       IN  /\ Commit(h, StepOrder[1])
           /\ start' = h
           /\ pre' = h
           /\ interiorOnly' = (interiorOnly /\ c \in InteriorCells)
  /\ UNCHANGED <<iter, frame, todo>>

Inject ==
  /\ frame < frames
  /\ InjectAt(InjectCells)

\* one statement of step
Run(at) ==
  /\ pre' = Heap
  /\ Commit(StepCall(at, Heap), NextPc(at))
  /\ UNCHANGED <<iter, frame, start, todo, interiorOnly>>

DiffuseVelo ==
  /\ pc = "diffuse_velo"
  /\ Run("diffuse_velo")

ProjectVelo0 ==
  /\ pc = "project_velo0"
  /\ Run("project_velo0")

AdvectX ==
  /\ pc = "advect_x"
  /\ Run("advect_x")

AdvectY ==
  /\ pc = "advect_y"
  /\ Run("advect_y")

ProjectVelo ==
  /\ pc = "project_velo"
  /\ Run("project_velo")

DiffuseDensity ==
  /\ pc = "diffuse_density"
  /\ Run("diffuse_density")

AdvectDensity ==
  /\ pc = "advect_density"
  /\ Run("advect_density")

\* the driver reads density and goes round the loop
Record ==
  /\ pc = AfterStep
  /\ frame' = frame + 1
  /\ pc' = "inject"
  /\ UNCHANGED <<s, density, velo, velo0, iter, pre, start, todo, interiorOnly>>

Next ==
  \/ Inject
  \/ DiffuseVelo
  \/ ProjectVelo0
  \/ AdvectX
  \/ AdvectY
  \/ ProjectVelo
  \/ DiffuseDensity
  \/ AdvectDensity
  \/ Record

Spec == Init /\ [][Next]_vars

\* the same program with self.iter set to any count from 1 to MaxIter
InitIter ==
  /\ s = Zero
  /\ density = Zero
  /\ velo = <<Zero, Zero>>
  /\ velo0 = <<Zero, Zero>>
  /\ iter \in 1 .. MaxIter
  /\ pc = "inject"
  /\ frame = 0
  /\ pre = [s |-> Zero, density |-> Zero, velo_x |-> Zero, velo_y |-> Zero,
            velo0_x |-> Zero, velo0_y |-> Zero, err |-> FALSE]
  /\ start = pre
  /\ todo = InteriorCells
  /\ interiorOnly = TRUE

SpecIter == InitIter /\ [][Next]_vars

\* advect with its interior cells visited in any order: one cell per action,
\* reading the live heap; the last cell is followed by set_boundaries(d)
AdvectAnyCell ==
  /\ pc \in AdvectPcs
  /\ \E c \in todo :
       LET a == AdvectArgs(pc)
           h1 == advect_cell(Heap, a.d, a.d0, a.velo_x, a.velo_y, c)
           last == (todo = {c})
           h2 == IF ~h1.err /\ last THEN set_boundaries(h1, <<a.d>>) ELSE h1
       IN  /\ Commit(h2, IF last THEN NextPc(pc) ELSE pc)
           /\ todo' = IF h1.err \/ last THEN InteriorCells ELSE todo \ {c}
           /\ pre' = IF todo = InteriorCells THEN Heap ELSE pre
  /\ UNCHANGED <<iter, frame, start, interiorOnly>>

\* the driver of SpecSweep writes one of two cells, for SweepFrames frames
SweepCells == {<<1, 1>>, <<size - 2, size - 2>>}

InjectSweep ==
  /\ frame < SweepFrames
  /\ InjectAt(SweepCells)

NextSweep ==
  \/ InjectSweep
  \/ DiffuseVelo
  \/ ProjectVelo0
  \/ AdvectAnyCell
  \/ ProjectVelo
  \/ DiffuseDensity
  \/ Record

SpecSweep == Init /\ [][NextSweep]_vars

-----------------------------------------------------------------------------
\* Claims

\* the statement of step that has just returned, if control is right after `at`
JustRan(at) == pc = NextPc(at) /\ todo = InteriorCells

\* C1: every advect call of step reads d0 only at indices inside 0 .. size-1,
\* whatever the flow field holds at the interior cells.
C1_AdvectReadsInsideBuffer ==
  pc \in AdvectPcs =>
    LET a == AdvectArgs(pc)
    IN  \A c \in InteriorCells : InBuffer(advect_trace(Heap, a.velo_x, a.velo_y, c))

\* the corner relations of the specification for one 2d array
CornerAverages(f) ==
  /\ f[<<0, 0>>] = Mul(Half, f[<<1, 0>>] + f[<<0, 1>>])
  /\ f[<<0, size - 1>>] = Mul(Half, f[<<1, size - 1>>] + f[<<0, size - 2>>])
  /\ f[<<size - 1, 0>>] = Mul(Half, f[<<size - 2, 0>>] + f[<<size - 1, 1>>])
  /\ f[<<size - 1, size - 1>>] =
       Mul(Half, f[<<size - 2, size - 1>>] + f[<<size - 1, size - 2>>])

\* the table the last statement of a routine of step passes to set_boundaries
Enforced(at) ==
  IF at \in DiffusePcs THEN DiffuseArgs(at).x
  ELSE IF at \in ProjectPcs THEN T_velo
  ELSE <<AdvectArgs(at).d>>

\* C2: right after set_boundaries (the last statement of diffuse, project and
\* advect), each corner of the enforced field is 0.5 times the sum of its two
\* adjacent edge cells.
C2_CornersAreAverages ==
  \A n \in 1 .. Len(StepOrder) :
    JustRan(StepOrder[n]) =>
      LET table == Enforced(StepOrder[n])
      IN  \A m \in 1 .. Len(table) : CornerAverages(Heap[table[m]])

\* the velocity table as project hands it to its final set_boundaries
BeforeEnforce(at) ==
  LET a == ProjectArgs(at) IN project_body(pre, a.velo_x, a.velo_y, a.p, a.div)

\* the wall cells of `rows` have the negated value of the table before the call
Reflected(orig, rows) ==
  /\ \A i \in rows :
       /\ Heap.velo_y[<<i, 0>>] = -orig.velo_y[<<i, 0>>]
       /\ Heap.velo_y[<<i, size - 1>>] = -orig.velo_y[<<i, size - 1>>]
  /\ \A j \in rows :
       /\ Heap.velo_x[<<0, j>>] = -orig.velo_x[<<0, j>>]
       /\ Heap.velo_x[<<size - 1, j>>] = -orig.velo_x[<<size - 1, j>>]

\* C3 as stated: after set_boundaries on the 2-vector field velo, vy on columns
\* 0 and size-1 and vx on rows 0 and size-1 are the negated values of just
\* before the call, at every index 0 .. size-1, corners included.
C3_ReflectionEverywhere ==
  \A at \in ProjectPcs : JustRan(at) => Reflected(BeforeEnforce(at), Idx)

\* C3 as amended: the same at every index 1 .. size-2, the corners left out.
C3_ReflectionOffCorners ==
  \A at \in ProjectPcs : JustRan(at) => Reflected(BeforeEnforce(at), InteriorIdx)

\* a wall cell off the corners held a non-zero normal component, and was negated
C3_Witness ==
  \E at \in ProjectPcs :
    /\ JustRan(at)
    /\ \E i \in InteriorIdx :
         /\ BeforeEnforce(at).velo_y[<<i, 0>>] # 0
         /\ Heap.velo_y[<<i, 0>>] = -BeforeEnforce(at).velo_y[<<i, 0>>]

RECURSIVE SumUpTo(_, _)
SumUpTo(f, k) ==
  IF k = 0 THEN 0
  ELSE f[<<(k - 1) % size, (k - 1) \div size>>] + SumUpTo(f, k - 1)

\* sum of a field over all size x size cells
SumField(f) == SumUpTo(f, size * size)

Abs(v) == IF v < 0 THEN -v ELSE v

\* the epsilon of the mass claim: the truncations of one step, 8 per cell
MassEps == 8 * size * size

MassKept == Abs(SumField(density) - SumField(start.density)) <= MassEps

\* C4 as stated: with diff = visc = 0 the sum of density after step() is the
\* sum before it, up to MassEps, for any density and velocity at the call
\* (taken where the driver has written interior cells only, so that the walls
\* and corners are zero and play no part).
C4_MassConserved == (pc = AfterStep /\ interiorOnly) => MassKept

\* when step is called the fluid is at rest and the border holds no density
\* (and velo0 has the zero border the constructor gave it)
AtRest ==
  /\ start.velo_x = Zero
  /\ start.velo_y = Zero
  /\ \A c \in BorderCells :
       start.density[c] = 0 /\ start.velo0_x[c] = 0 /\ start.velo0_y[c] = 0

\* C4 as amended: with diff = visc = 0, if velo is zero in every cell and
\* density and velo0 are zero in every boundary cell when step() is called,
\* the sum of density after step() is the sum before it, up to MassEps.
C4_MassConservedAtRest == (pc = AfterStep /\ AtRest) => MassKept

\* step has run on a fluid at rest that holds density
C4_Witness == pc = AfterStep /\ AtRest /\ SumField(start.density) > 0 /\ frame = 1

BorderIsZero(f) == \A c \in BorderCells : f[c] = 0

Spike(c, v) == [Zero EXCEPT ![c] = v]

\* other contents of the scratch arrays s and velo0
ScratchAlts ==
  {[s |-> Spike(c, 7 * Scale), velo0_x |-> Spike(c, w), velo0_y |-> Spike(c, -w)] :
     c \in {<<1, 1>>, <<size - 2, size - 2>>}, w \in {3 * Scale, -5 * Scale}}

\* the driver writes density and velo only, and no routine writes a wall cell
\* of s or velo0 other than by negating it or averaging wall cells: the border
\* of the scratch arrays is zero in every reachable state, as in ScratchAlts
ScratchBorderIsZero ==
  BorderIsZero(s) /\ BorderIsZero(velo0[1]) /\ BorderIsZero(velo0[2])

\* the Grid State step was called on, with other scratch
WithScratch(alt) ==
  [start EXCEPT !.s = alt.s, !.velo0_x = alt.velo0_x, !.velo0_y = alt.velo0_y]

C6_IdentityDiffusion ==
  \A at \in DiffusePcs :
    JustRan(at) =>
      LET a == DiffuseArgs(at)
      IN  /\ a.rate = 0
          /\ \A m \in 1 .. Len(a.x) :
               /\ \A c \in InteriorCells : Heap[a.x[m]][c] = pre[a.x0[m]][c]
               /\ Heap[a.x0[m]] = pre[a.x0[m]]
          /\ \A n \in DOMAIN Heap :
               (\A m \in 1 .. Len(a.x) : a.x[m] # n) => Heap[n] = pre[n]

\* diffuse has overwritten a target that differed from its source
C6_Witness ==
  /\ JustRan("diffuse_velo")
  /\ iter = 1
  /\ pre.velo0_x # pre.velo_x
  /\ \E c \in InteriorCells : pre.velo_x[c] # 0 /\ Heap.velo0_x[c] = pre.velo_x[c]

\* div[i,j] = -0.5*((vx[i+1,j]-vx[i-1,j]) + (vy[i,j+1]-vy[i,j-1]))/N
Divergence(h, velo_x, velo_y, c) ==
  LET i == c[1]
      j == c[2]
  IN  Trunc(Mul(-Half, (h[velo_x][<<i + 1, j>>] - h[velo_x][<<i - 1, j>>])
                       + (h[velo_y][<<i, j + 1>>] - h[velo_y][<<i, j - 1>>])), size)

RECURSIVE DivSquares(_, _, _, _)
DivSquares(h, velo_x, velo_y, k) ==
  IF k = 0 THEN 0
  ELSE LET v == Divergence(h, velo_x, velo_y, InteriorAt(k - 1))
       IN  v * v + DivSquares(h, velo_x, velo_y, k - 1)

\* square of the L2 norm of the divergence over the interior cells
DivNorm2(h, velo_x, velo_y) == DivSquares(h, velo_x, velo_y, NInterior)

\* C7: after project, the L2 norm of the interior divergence of the projected
\* velocity is strictly smaller than before, whenever it was not zero.
C7_ProjectReducesDivergence ==
  \A at \in ProjectPcs :
    JustRan(at) =>
      LET a == ProjectArgs(at)
          before == DivNorm2(pre, a.velo_x, a.velo_y)
      IN  before > 0 => DivNorm2(Heap, a.velo_x, a.velo_y) < before

\* C8: each project call of step ends by applying set_boundaries to the
\* velocity it projected, and leaves its p and div buffer as it was.
C8_EnforcerOnProjectedField ==
  \A at \in ProjectPcs :
    JustRan(at) =>
      LET a == ProjectArgs(at)
      IN  Heap = set_boundaries(BeforeEnforce(at), <<a.velo_x, a.velo_y>>)

\* C9: in every advect call of step d is another array than d0, velo_x and
\* velo_y; these stay as they were at the call while the cells are visited;
\* and whatever the order of the visits, d ends as the sequential sweep
\* leaves it.
C9_AdvectOrderIrrelevant ==
  /\ (pc \in AdvectPcs /\ todo # InteriorCells) =>
       LET a == AdvectArgs(pc)
       IN  \A n \in {a.d0, a.velo_x, a.velo_y} : Heap[n] = pre[n]
  /\ \A at \in AdvectPcs :
       JustRan(at) =>
         LET a == AdvectArgs(at)
         IN  Heap = advect(pre, a.d, a.d0, a.velo_x, a.velo_y)
  /\ pc \in AdvectPcs =>
       LET a == AdvectArgs(pc) IN a.d \notin {a.d0, a.velo_x, a.velo_y}

\* the density sweep has ended, in some order, and has moved density
C9_Witness ==
  /\ JustRan("advect_density")
  /\ Heap.density # pre.density
  /\ \E c \in InteriorCells : pre.velo_x[c] # 0

\* C10: as long as the driver has written interior cells only, every boundary
\* cell of density, s, velo and velo0 is 0.
C10_BorderStaysZero ==
  interiorOnly =>
    /\ BorderIsZero(density)
    /\ BorderIsZero(s)
    /\ BorderIsZero(velo[1]) /\ BorderIsZero(velo[2])
    /\ BorderIsZero(velo0[1]) /\ BorderIsZero(velo0[2])

\* two steps have run on interior impulses and left density and velocity
C10_Witness ==
  /\ interiorOnly
  /\ pc = AfterStep
  /\ frame = 1
  /\ \E c \in InteriorCells : density[c] # 0 /\ velo[1][c] # 0 /\ velo0[2][c] # 0

====
